---- MODULE Spec2Model ----
(***************************************************************************)
(* meson-ninja-vs (ninja_vs.py): generation of a Visual Studio solution    *)
(* from meson introspection data, and the marker-file protocol the         *)
(* generated build steps run in the scratch directory ninja_vs_temp.       *)
(*                                                                         *)
(* Strings that the program splits, joins or hashes are sequences of       *)
(* tokens: a path is its components with the separator token SEP between   *)
(* them, so that str.split, os.path.dirname, os.path.relpath and Path's /  *)
(* are computed, not assumed.                                              *)
(***************************************************************************)
EXTENDS Integers, Sequences, FiniteSets, TLC

VARIABLES
    targets,    \* the entries of intro-targets.json, in the order of the file
    sln,        \* what the last generation run emitted (solution + project files)
    prev,       \* the node ids the run before the last one emitted, or NoRun
    seed,       \* the entropy uuid.uuid4 draws from in the next run
    tmp_dir,    \* the files in <build_dir>\ninja_vs_temp (marker names)
    session,    \* ids of the projects of the build session in progress
    pc,         \* position of each project's build step in the session
    slept,      \* target steps whose parallel_sleep.py executed time.sleep
    listing,    \* the last os.listdir result of each target step
    engine,     \* ninja invocations of the session: [by, args]
    exit_status,         \* what the command of each finished target step exited with
    docs,                \* the documents that exist in <build_dir>\meson-info
    gpc,                 \* position of the generation run in __init__
    written,             \* files of the build directory the run created or wrote
    err,                 \* the exception that ended the run, or NoError
    object_deps,         \* get_headers: the records of ninja -t deps
    attributed,          \* get_headers: target_proj of each record processed so far
    target_headers,      \* get_headers: the header spellings added per target name
    filt_target_headers, \* get_headers: the list returned per target name
    info_build_dir,      \* intro['meson_info']['directories']['build']
    eol,                 \* the line ending ninja -t deps prints with
    deps_blocks,         \* the blocks ninja -t deps printed, one per logged object
    buildoptions,        \* the entries of intro-buildoptions.json
    proj_options,        \* the meson_ properties of Reconfigure_project.vcxproj
    reconfigured         \* what the last run_reconfigure did, or NotRun

\* the state of a generation run that is followed step by step
\* what get_headers reads from its environment
hvars == <<info_build_dir, eol, deps_blocks>>

\* the state run_reconfigure works on
rvars == <<buildoptions, proj_options, reconfigured>>

gvars ==
    <<docs, gpc, written, err, object_deps, attributed, target_headers,
      filt_target_headers, hvars, rvars>>

vars ==
    <<targets, sln, prev, seed, tmp_dir, session, pc, slept, listing, engine,
      exit_status, gvars>>

----------------------------------------------------------------------------
(* Bounds *)

MaxTargets == 2

Seeds == {0, 1}

----------------------------------------------------------------------------
(* Paths as token sequences *)

SEP == "\\"

build_dir == <<"C:", SEP, "build">>

source_dir == <<"C:", SEP, "proj">>

build_to_run_subdir == <<"Build to run">>

\* pathlib: a / b
PathJoin(a, b) ==
    IF b = <<>> THEN a
    ELSE IF a = <<>> THEN b
    ELSE a \o <<SEP>> \o b

\* the path whose components are comps
RECURSIVE PathOf(_)
PathOf(comps) ==
    IF comps = <<>> THEN <<>>
    ELSE IF Len(comps) = 1 THEN <<comps[1]>>
    ELSE <<comps[1], SEP>> \o PathOf(Tail(comps))

\* str.split('\\'): the pieces between separator tokens, each a string
RECURSIVE SplitFrom(_, _, _)
SplitFrom(s, i, cur) ==
    IF i > Len(s) THEN <<cur>>
    ELSE IF s[i] = SEP THEN <<cur>> \o SplitFrom(s, i + 1, <<>>)
    ELSE SplitFrom(s, i + 1, Append(cur, s[i]))

Split(s) == SplitFrom(s, 1, <<>>)

\* the components of a path
Comps(p) == [i \in 1..Len(Split(p)) |-> Split(p)[i][1]]

\* index of the last separator token of s, 0 when there is none
RECURSIVE LastSep(_, _)
LastSep(s, i) ==
    IF i = 0 THEN 0
    ELSE IF s[i] = SEP THEN i
    ELSE LastSep(s, i - 1)

\* os.path.dirname
Dirname(s) ==
    LET k == LastSep(s, Len(s)) IN
    IF k = 0 THEN <<>> ELSE SubSeq(s, 1, k - 1)

\* os.path.basename
Basename(s) == SubSeq(s, LastSep(s, Len(s)) + 1, Len(s))

\* os.path.relpath(p, start) and Path.relative_to(start), for p at or below
\* start; the path '.' is the empty path of PathJoin
Relpath(p, start) ==
    IF p = start THEN <<>>
    ELSE SubSeq(p, Len(start) + 2, Len(p))

----------------------------------------------------------------------------
(* Identity assignment *)

\* uuid.uuid4(): the random id drawn at place k of a run with entropy seed
generate_guid(k) == <<"uuid4", seed, k>>

\* an id drawn with uuid4 where the name-based one is meant
generate_guid_from_path_random(path) == <<"uuid4", seed, path>>

\* a name-based id that hashes the last path component only
generate_guid_from_path_basename(path) == <<"uuid5", Basename(path)>>

\* uuid.uuid5(NAMESPACE_URL, str(path)): a name-based hash, taken to be
\* collision-free, so the id is the hashed string itself under a tag
generate_guid_from_path(path) == <<"uuid5", path>>

----------------------------------------------------------------------------
(* Introspection data *)

\* get_introspect_files, lines 235-240: the target id is qualified with the
\* directory of the declaring meson.build, relative to the source root
QualifyId(t) ==
    LET target_dir == Dirname(t.defined_in)
        prefix == Relpath(target_dir, source_dir)
    IN  [t EXCEPT !.id = PathJoin(prefix, t.id)]

\* BuildTarget.__init__: output relative to the build directory
BuildTargetOutput(t) ==
    IF Len(t.filename) > 0 THEN Relpath(t.filename[1], build_dir) ELSE <<>>

----------------------------------------------------------------------------
(* Graph assembly: VisualStudioSolution.__init__ *)

VcxProj(name, id, guid, build_by_default, is_run_target, subdir) ==
    [name |-> name, id |-> id, guid |-> guid,
     build_by_default |-> build_by_default,
     is_run_target |-> is_run_target, subdir |-> subdir]

install_proj ==
    VcxProj("Run install", <<"Run_install">>,
            generate_guid_from_path(PathJoin(build_dir, <<"install">>)),
            FALSE, TRUE, build_to_run_subdir)

test_proj ==
    VcxProj("Run tests", <<"Run_tests">>,
            generate_guid_from_path(PathJoin(build_dir, <<"tests">>)),
            FALSE, TRUE, build_to_run_subdir)

reconfigure_proj ==
    VcxProj("Reconfigure project", <<"Reconfigure_project">>,
            generate_guid_from_path(PathJoin(build_dir, <<"reconfigure">>)),
            FALSE, TRUE, build_to_run_subdir)

prebuild_proj ==
    VcxProj("Prebuild", <<"Prebuild">>,
            generate_guid_from_path(PathJoin(build_dir, <<"prebuild">>)),
            TRUE, TRUE, build_to_run_subdir)

regen_proj ==
    VcxProj("Regenerate solution", <<"Regenerate_solution">>,
            generate_guid_from_path(PathJoin(build_dir, <<"regen">>)),
            TRUE, TRUE, build_to_run_subdir)

ninja_proj ==
    VcxProj("Ninja", <<"Ninja">>,
            generate_guid_from_path(PathJoin(build_dir, <<"ninja">>)),
            TRUE, TRUE, build_to_run_subdir)

\* a folder path that keeps the first directory only
TargetSubdir_top(t) ==
    LET d == Dirname(Relpath(t.defined_in, source_dir)) IN
    IF d = <<>> THEN <<>> ELSE <<d[1]>>

\* lines 404-414: the project node of one introspected target
TargetSubdir(t) == Dirname(Relpath(t.defined_in, source_dir))

TargetBuildByDefault(t) == t.build_by_default

TargetProj(t) ==
    VcxProj(t.name, t.id,
            generate_guid_from_path(PathJoin(build_dir, t.id)),
            TargetBuildByDefault(t), t.type = "run", TargetSubdir(t))

\* self.vcxprojs after __init__, for intro['targets'] = intro_targets
VcxProjs(intro_targets) ==
    <<install_proj, test_proj, reconfigure_proj, prebuild_proj>>
    \o [i \in 1..Len(intro_targets) |-> TargetProj(intro_targets[i])]
    \o <<regen_proj, ninja_proj>>

\* self.subdirs after __init__
Subdirs(intro_targets) ==
    {build_to_run_subdir}
    \cup {TargetSubdir(intro_targets[i]) : i \in 1..Len(intro_targets)}

----------------------------------------------------------------------------
(* Project files: the custom build command and the project references *)

NoMarker == ""

Command(pre, marker, op, args) ==
    [pre |-> pre, marker |-> marker, op |-> op, args |-> args]

ProjFile(command, dependencies) ==
    [command |-> command, refs |-> {d.guid : d \in dependencies}]

\* line 398: del /s /q /f "<tmp_dir>\*"
prebuild_cmd == Command("none", NoMarker, "del", <<>>)

\* a Ninja project that runs the marker script like a target does
ninja_cmd_counts == Command("parallel_sleep", "ninja", "ninja", <<>>)

\* line 441: echo NUL > "<tmp_dir>\ninja", then ninja
ninja_cmd == Command("echo", "ninja", "ninja", <<>>)

\* line 504: echo NUL > "<tmp_dir>\regen", then ninja build.ninja && ninja_vs.py
regen_cmd == Command("echo", "regen", "regen", <<"build.ninja">>)

\* lines 587-591: parallel_sleep.py <name>, then ninja <output> if it exits 1
compile_cmd(t) ==
    Command("parallel_sleep", t.name, "ninja", BuildTargetOutput(t))

\* line 417: ninja -C <build_dir> <name>
run_target_cmd(t) == Command("none", NoMarker, "ninja", <<t.name>>)

\* a Ninja project generated without dependencies
NinjaDependencies_none == {}

\* line 442: the dependencies handed to generate_run_proj for Ninja
NinjaDependencies == {regen_proj}

\* generate_run_proj / generate_regen_proj / generate_reconfigure_proj /
\* generate_build_proj: the file <id>.vcxproj of the i-th project of __init__
ProjFileOf(intro_targets, i) ==
    LET n == Len(intro_targets) IN
    IF i = 1 THEN ProjFile(Command("none", NoMarker, "ninja", <<"install">>), {})
    ELSE IF i = 2 THEN ProjFile(Command("none", NoMarker, "meson", <<"test">>), {})
    ELSE IF i = 3 THEN ProjFile(Command("none", NoMarker, "reconfigure", <<>>), {})
    ELSE IF i = 4 THEN ProjFile(prebuild_cmd, {})
    ELSE IF i <= 4 + n THEN
        LET t == intro_targets[i - 4] IN
        IF t.type = "run" THEN ProjFile(run_target_cmd(t), {})
        ELSE ProjFile(compile_cmd(t), {})
    ELSE IF i = 5 + n THEN ProjFile(regen_cmd, {})
    ELSE ProjFile(ninja_cmd, NinjaDependencies)

\* the project files on disk after __init__: a later project with the same
\* id overwrites the file of an earlier one
ProjFiles(intro_targets) ==
    LET vcxprojs == VcxProjs(intro_targets)
        ids == {vcxprojs[i].id : i \in 1..Len(vcxprojs)}
        last(id) == CHOOSE i \in 1..Len(vcxprojs) :
                        /\ vcxprojs[i].id = id
                        /\ \A j \in 1..Len(vcxprojs) : vcxprojs[j].id = id => j <= i
    IN  [id \in ids |-> ProjFileOf(intro_targets, last(id))]

----------------------------------------------------------------------------
(* generate_build_proj: the filters file <id>.vcxproj.filters *)

\* self.headers[name]: the list get_headers returned for the target
SelfHeaders(name) ==
    IF name \in DOMAIN filt_target_headers
    THEN DOMAIN filt_target_headers[name] ELSE {}

\* os.path.relpath(p, start) for relative paths p and start, as components:
\* one '..' for every component of start after the common prefix, then the
\* rest of p; '.' when nothing is left
RelComps(p, start) ==
    LET common == {k \in 0..Len(p) :
                      k <= Len(start) /\ SubSeq(p, 1, k) = SubSeq(start, 1, k)}
        c == CHOOSE k \in common : \A l \in common : l <= k
        r == [i \in 1..(Len(start) - c) |-> ".."] \o SubSeq(p, c + 1, Len(p))
    IN  IF r = <<>> THEN <<".">> ELSE r

\* the components of a relative path; '' and '.' have none
DirComps(p) == IF p = <<>> THEN <<>> ELSE Comps(p)

\* lines 683-695: src_paths, the directory of every source and header
\* relative to the source root, and every prefix of it
SrcPaths(t) ==
    LET files == {t.target_sources[i] : i \in 1..Len(t.target_sources)}
                 \cup SelfHeaders(t.name)
        dirs == {DirComps(Dirname(Relpath(f, source_dir))) : f \in files}
    IN  UNION {{SubSeq(d, 1, k) : k \in 0..Len(d)} : d \in dirs}

\* line 699: filter_folder
FilterFolder(t) == DirComps(Dirname(t.id))

\* lines 703-708: the paths given a Filter entry
FilterPaths(t) ==
    {PathOf(r) : r \in {q \in {RelComps(d, FilterFolder(t)) : d \in SrcPaths(t) \ {<<>>}} :
                           q[1] \notin {".", ".."}}}

\* lines 709-711: the UniqueIdentifier of every Filter entry
FilterEntries(t) == [f \in FilterPaths(t) |-> generate_guid(<<t.id, f>>)]

\* the filters files on disk after __init__
Filters(intro_targets) ==
    LET built == {i \in 1..Len(intro_targets) : intro_targets[i].type # "run"} IN
    [id \in {intro_targets[i].id : i \in built} |->
        FilterEntries(intro_targets[CHOOSE i \in built :
            /\ intro_targets[i].id = id
            /\ \A j \in built : intro_targets[j].id = id => j <= i])]

----------------------------------------------------------------------------
(* generate_solution *)

\* a solution without the ProjectDependencies sections
PrebuildDeps_none(proj) == {}

\* lines 739-746: the Project entries, with prebuild as a dependency of all
\* other projects
PrebuildDeps(proj) ==
    IF proj # prebuild_proj THEN {prebuild_proj.guid} ELSE {}

SlnProjects(vcxprojs) ==
    [i \in 1..Len(vcxprojs) |->
        [name |-> vcxprojs[i].name, file |-> vcxprojs[i].id,
         guid |-> vcxprojs[i].guid, deps |-> PrebuildDeps(vcxprojs[i])]]

\* lines 755-766: base + "\\" + split_dir[1] + ... + "\\" + split_dir[i],
\* for k = i + 1 pieces
RECURSIVE SubPath(_, _)
SubPath(split_dir, k) ==
    IF k = 1 THEN split_dir[1]
    ELSE SubPath(split_dir, k - 1) \o <<SEP>> \o split_dir[k]

\* an expansion that adds the folder itself but none of its ancestors
ExpandDir_leaf(dir) == IF dir = <<>> THEN {} ELSE {dir}

\* lines 750-768: expanded_subdirs
ExpandDir(dir) ==
    LET split_dir == Split(dir) IN
    IF dir = <<>> THEN {}
    ELSE IF Len(split_dir) > 1
         THEN {SubPath(split_dir, k) : k \in 1..Len(split_dir)}
         ELSE {dir}

ExpandedSubdirs(subdirs) == UNION {ExpandDir(dir) : dir \in subdirs}

\* a loop that never moves parent on from base
DirParents_root(dir) ==
    LET split_dir == Split(dir) IN
    IF dir = <<>> \/ Len(split_dir) <= 1 THEN {}
    ELSE {<<SubPath(split_dir, k), split_dir[1]>> : k \in 2..Len(split_dir)}

\* lines 749-766: subsubdir_parents, as the set of <<sub, parent>> entries
DirParents(dir) ==
    LET split_dir == Split(dir) IN
    IF dir = <<>> \/ Len(split_dir) <= 1 THEN {}
    ELSE {<<SubPath(split_dir, k), SubPath(split_dir, k - 1)>> :
             k \in 2..Len(split_dir)}

SubsubdirParents(subdirs) == UNION {DirParents(dir) : dir \in subdirs}

\* lines 769-771: subdir_guids
SubdirGuids(subdirs) ==
    [dir \in ExpandedSubdirs(subdirs) |-> generate_guid_from_path(dir)]

\* line 773: the folder entries of the solution, named by the last piece
FolderEntries(subdirs) ==
    {[name |-> Split(dir)[Len(Split(dir))], guid |-> SubdirGuids(subdirs)[dir]] :
        dir \in ExpandedSubdirs(subdirs)}

\* lines 781-788: the projects given a Build.0 line
Build0(vcxprojs) ==
    {vcxprojs[i].guid : i \in {j \in 1..Len(vcxprojs) : vcxprojs[j].build_by_default}}

\* a dictionary lookup that raises KeyError leaves the marker KeyError
KeyError == <<"KeyError">>

Lookup(dict, key) == IF key \in DOMAIN dict THEN dict[key] ELSE KeyError

\* lines 792-797: NestedProjects, as <<child guid, parent guid>> lines
NestedProjects(vcxprojs, subdirs) ==
    LET subdir_guids == SubdirGuids(subdirs) IN
    {<<vcxprojs[i].guid, Lookup(subdir_guids, vcxprojs[i].subdir)>> :
        i \in {j \in 1..Len(vcxprojs) : vcxprojs[j].subdir # <<>>}}
    \cup {<<Lookup(subdir_guids, e[1]), Lookup(subdir_guids, e[2])>> :
        e \in SubsubdirParents(subdirs)}

\* everything one run of VisualStudioSolution(build_dir) emits
Generate(intro_targets) ==
    LET vcxprojs == VcxProjs(intro_targets)
        subdirs == Subdirs(intro_targets)
    IN  [vcxprojs |-> vcxprojs,
         files |-> ProjFiles(intro_targets),
         projects |-> SlnProjects(vcxprojs),
         subdir_guids |-> SubdirGuids(subdirs),
         folders |-> FolderEntries(subdirs),
         parents |-> SubsubdirParents(subdirs),
         build0 |-> Build0(vcxprojs),
         nested |-> NestedProjects(vcxprojs, subdirs),
         filters |-> Filters(intro_targets)]

----------------------------------------------------------------------------
(* The introspected target sets the runs are checked on *)

TargetNames == <<"a", "b", "c", "d", "lib", "mylib", "app", "ninja">>
TargetIds ==
    <<"a@exe", "b@exe", "c@exe", "d@exe", "lib@exe", "mylib@exe", "app@exe",
      "ninja@exe">>
TargetFiles ==
    <<"a.exe", "b.exe", "c.exe", "d.exe", "lib.exe", "mylib.exe", "app.exe",
      "ninja.exe">>

\* directories of the source tree in which a meson.build declares a target
DirPool ==
    <<<<>>, <<"src">>, <<"lib">>, <<"src", "lib">>, <<"src", "lib", "sub">>,
      <<"Build to run">>>>

RootOnly == <<<<>>>>

\* one entry of intro-targets.json as meson writes it
RawTarget(i, dir, bbd, type) ==
    [name |-> TargetNames[i],
     id |-> <<TargetIds[i]>>,
     defined_in |-> PathJoin(PathJoin(source_dir, PathOf(dir)), <<"meson.build">>),
     build_by_default |-> bbd,
     type |-> type,
     filename |-> <<PathJoin(PathJoin(build_dir, PathOf(dir)), <<TargetFiles[i]>>)>>,
     target_sources |-> <<PathJoin(PathJoin(source_dir, PathOf(dir)), <<"main.c">>)>>]

\* build_by_default and type of a target: meson never builds a run target
\* by default
TargetKinds ==
    <<<<TRUE, "executable">>, <<FALSE, "executable">>, <<FALSE, "run">>>>

\* the a-th combination of a directory of dirs and a kind
AttrDir(dirs, a) == dirs[((a - 1) \div Len(TargetKinds)) + 1]

AttrKind(a) == TargetKinds[((a - 1) % Len(TargetKinds)) + 1]

\* the contents intro-targets.json may have: up to MaxTargets entries; the
\* entries a, b, c, d differ in name only, so the combinations are taken in
\* non-decreasing order
TargetLists(dirs) ==
    UNION {
        {[i \in 1..k |-> RawTarget(i, AttrDir(dirs, f[i]), AttrKind(f[i])[1], AttrKind(f[i])[2])] :
            f \in {g \in [1..k -> 1..(Len(dirs) * Len(TargetKinds))] :
                      \A i \in 1..k, j \in 1..k : i <= j => g[i] <= g[j]}} :
        k \in 0..MaxTargets}

\* the same entries in another order
Reorderings(list) ==
    {[i \in 1..Len(list) |-> list[p[i]]] :
        p \in {q \in [1..Len(list) -> 1..Len(list)] :
                  \A i, j \in 1..Len(list) : q[i] = q[j] => i = j}}

\* intro['targets'] as get_introspect_files returns it
IntroTargets(list) == [i \in 1..Len(list) |-> QualifyId(list[i])]

----------------------------------------------------------------------------
(* The introspection documents *)

\* get_introspect_files, lines 221-230: the documents, in the order of the
\* dictionary the loop of line 231 walks
IntroDocs ==
    <<"intro-benchmarks.json", "intro-buildoptions.json",
      "intro-buildsystem_files.json", "intro-dependencies.json",
      "intro-compilers.json", "intro-installed.json",
      "intro-projectinfo.json", "intro-targets.json", "intro-tests.json",
      "meson-info.json">>

\* prefix / '<document>'
IntroPath(k) ==
    PathJoin(PathJoin(build_dir, <<"meson-info">>), <<IntroDocs[k]>>)

AllDocs == {IntroDocs[k] : k \in 1..Len(IntroDocs)}

NoError == <<>>

\* run_reconfigure has not run
NotRun == [status |-> "not run", changed |-> <<>>, configure |-> FALSE]

\* a project without build options, never reconfigured
NoReconfigure ==
    /\ buildoptions = <<>>
    /\ proj_options = <<>>
    /\ reconfigured = NotRun

\* no generation run is followed step by step: meson-info is complete
NoGeneration ==
    /\ docs = AllDocs
    /\ gpc = <<"done">>
    /\ written = {}
    /\ err = NoError
    /\ object_deps = <<>>
    /\ attributed = <<>>
    /\ target_headers = <<>>
    /\ filt_target_headers = <<>>
    /\ info_build_dir = build_dir
    /\ eol = "\r\n"
    /\ deps_blocks = <<>>
    /\ NoReconfigure

----------------------------------------------------------------------------
(* Generation runs *)

\* the node ids a run assigned: per project file and per folder path
NodeIds(s) ==
    [projects |-> {<<s.vcxprojs[i].id, s.vcxprojs[i].guid>> : i \in 1..Len(s.vcxprojs)},
     folders |-> s.subdir_guids]

\* no earlier run: no node ids
NoRun == [projects |-> {}, folders |-> <<>>]

NoSession ==
    /\ tmp_dir = {}
    /\ session = {}
    /\ pc = <<>>
    /\ slept = {}
    /\ listing = <<>>
    /\ engine = {}
    /\ exit_status = <<>>

InitGen ==
    /\ targets \in TargetLists(DirPool)
    /\ seed \in Seeds
    /\ NoGeneration
    /\ sln = Generate(IntroTargets(targets))
    /\ prev = NoRun
    /\ NoSession

\* python ninja_vs.py --build_root <build_dir>
GenerationRun ==
    /\ sln' = Generate(IntroTargets(targets))
    /\ prev' = NodeIds(sln)
    /\ seed' \in Seeds
    /\ UNCHANGED <<targets, tmp_dir, session, pc, slept, listing, engine, exit_status, gvars>>

\* meson writes the same targets to intro-targets.json in another order
IntroReorder ==
    /\ targets' \in Reorderings(targets) \ {targets}
    /\ UNCHANGED <<sln, prev, seed, tmp_dir, session, pc, slept, listing, engine, exit_status, gvars>>

NextGen == GenerationRun \/ IntroReorder

SpecGen == InitGen /\ [][NextGen]_vars

\* targets with sources below the directory that declares them: the name,
\* the declaring directory, the sources relative to the source root
FilterPool ==
    <<<<1, <<>>, <<<<"src", "main.c">>>>>>,
      <<2, <<>>, <<<<"src", "util", "u.c">>, <<"main.c">>>>>>,
      <<3, <<"src">>, <<<<"src", "sub", "x.c">>>>>>,
      <<4, <<"src">>, <<<<"src", "x.c">>>>>>>>

FilterTarget(e) ==
    [RawTarget(e[1], e[2], TRUE, "executable") EXCEPT
        !.target_sources =
            [i \in 1..Len(e[3]) |-> PathJoin(source_dir, PathOf(e[3][i]))]]

FilterTargetLists ==
    UNION {
        {[i \in 1..k |-> FilterTarget(FilterPool[f[i]])] :
            f \in {g \in [1..k -> 1..Len(FilterPool)] :
                      \A i \in 1..k, j \in 1..k : i < j => g[i] < g[j]}} :
        k \in 0..MaxTargets}

InitFilters ==
    /\ targets \in FilterTargetLists
    /\ seed \in Seeds
    /\ NoGeneration
    /\ sln = Generate(IntroTargets(targets))
    /\ prev = NoRun
    /\ NoSession

SpecFilters == InitFilters /\ [][NextGen]_vars

----------------------------------------------------------------------------
(* Build sessions: Visual Studio runs the custom build commands of the     *)
(* selected projects, a project only after the projects it depends on      *)

ProjIds == {sln.vcxprojs[i].id : i \in 1..Len(sln.vcxprojs)}

IdsOfGuids(guids) ==
    {sln.vcxprojs[i].id : i \in {j \in 1..Len(sln.vcxprojs) : sln.vcxprojs[j].guid \in guids}}

\* ProjectDependencies of the solution and ProjectReference of the project
DepGuids(id) ==
    sln.files[id].refs
    \cup UNION {sln.projects[i].deps :
                  i \in {j \in 1..Len(sln.projects) : sln.projects[j].file = id}}

Deps(id) == IdsOfGuids(DepGuids(id))

RECURSIVE Closure(_)
Closure(S) ==
    LET T == S \cup UNION {Deps(id) : id \in S} IN
    IF T = S THEN S ELSE Closure(T)

CommandOf(id) == sln.files[id].command

\* the six projects __init__ adds for every target set
SyntheticIds ==
    {install_proj.id, test_proj.id, reconfigure_proj.id, prebuild_proj.id,
     regen_proj.id, ninja_proj.id}

TargetProjIds == ProjIds \ SyntheticIds

\* what the user asks Visual Studio to build: Build Solution; or a selection
\* of target projects, Regenerate solution and Ninja; or any one project
Selections ==
    {IdsOfGuids(sln.build0)}
    \cup (SUBSET (TargetProjIds \cup {regen_proj.id, ninja_proj.id}) \ {{}})
    \cup {{id} : id \in ProjIds}

AllDone == \A id \in session : pc[id] = "done"

Ready(id) ==
    /\ id \in session
    /\ pc[id] = "pending"
    /\ \A d \in Deps(id) : d \in session => pc[d] = "done"

StartSession(sel) ==
    /\ AllDone
    /\ session' = Closure(sel)
    /\ pc' = [id \in Closure(sel) |-> "pending"]
    /\ slept' = {}
    /\ listing' = <<>>
    /\ engine' = {}
    /\ exit_status' = <<>>
    /\ UNCHANGED <<targets, sln, prev, seed, tmp_dir, gvars>>

Invocation(id, op, args) == [by |-> id, op |-> op, args |-> args]

\* a del whose pattern matches no marker
ClearDir_keeps(files) == files

\* line 398: del /s /q /f "<tmp_dir>\*" leaves no file of files
ClearDir(files) == {}

\* a command without a marker: del (Prebuild), ninja install, meson test,
\* ninja_vs.py --reconfigure, ninja <run target>
RunCommand(id) ==
    /\ Ready(id)
    /\ CommandOf(id).pre = "none"
    /\ IF CommandOf(id).op = "del"
       THEN tmp_dir' = ClearDir(tmp_dir) /\ engine' = engine
       ELSE /\ tmp_dir' = tmp_dir
            /\ engine' = engine \cup {Invocation(id, CommandOf(id).op, CommandOf(id).args)}
    /\ pc' = [pc EXCEPT ![id] = "done"]
    /\ UNCHANGED <<targets, sln, prev, seed, session, slept, listing, exit_status, gvars>>

\* echo NUL > "<tmp_dir>\<marker>"
Register(id) ==
    /\ Ready(id)
    /\ CommandOf(id).pre = "echo"
    /\ tmp_dir' = tmp_dir \cup {CommandOf(id).marker}
    /\ pc' = [pc EXCEPT ![id] = "registered"]
    /\ UNCHANGED <<targets, sln, prev, seed, session, slept, listing, engine, exit_status, gvars>>

\* the second line of the Ninja command: ninja, for the whole graph
NinjaBuild(id) ==
    /\ id \in session
    /\ pc[id] = "registered"
    /\ CommandOf(id).op = "ninja"
    /\ engine' = engine \cup {Invocation(id, "ninja", CommandOf(id).args)}
    /\ pc' = [pc EXCEPT ![id] = "done"]
    /\ UNCHANGED <<targets, sln, prev, seed, tmp_dir, session, slept, listing, exit_status, gvars>>

\* the second line of the Regenerate command: ninja build.ninja, then a
\* generation run
RegenRun(id) ==
    /\ id \in session
    /\ pc[id] = "registered"
    /\ CommandOf(id).op = "regen"
    /\ engine' = engine \cup {Invocation(id, "ninja", CommandOf(id).args)}
    /\ sln' = Generate(IntroTargets(targets))
    /\ prev' = NodeIds(sln)
    /\ seed' \in Seeds
    /\ pc' = [pc EXCEPT ![id] = "done"]
    /\ UNCHANGED <<targets, tmp_dir, session, slept, listing, exit_status, gvars>>

\* parallel_sleep.py, line 813: open(<tmp_dir>/<name>, "w").close()
SleepCreate(id) ==
    /\ Ready(id)
    /\ CommandOf(id).pre = "parallel_sleep"
    /\ tmp_dir' = tmp_dir \cup {CommandOf(id).marker}
    /\ pc' = [pc EXCEPT ![id] = "created"]
    /\ UNCHANGED <<targets, sln, prev, seed, session, slept, listing, engine, exit_status, gvars>>

\* a script that never sleeps
NeedsSleep_never(n) == FALSE

\* parallel_sleep.py, line 814: if len(os.listdir(<tmp_dir>)) < 2
NeedsSleep(n) == n < 2

\* a script that lists the directory again after the sleep
AfterSleep_repoll == "created"

\* parallel_sleep.py, lines 814-816: after the if statement the script goes
\* on to its last line
AfterSleep == "checked"

\* parallel_sleep.py, lines 814-815: sleep only when fewer than 2 files
SleepCheck(id) ==
    /\ id \in session
    /\ pc[id] = "created"
    /\ slept' = IF NeedsSleep(Cardinality(tmp_dir)) THEN slept \cup {id} ELSE slept
    /\ pc' = [pc EXCEPT ![id] = AfterSleep]
    /\ UNCHANGED <<targets, sln, prev, seed, tmp_dir, session, listing, engine, exit_status, gvars>>

\* parallel_sleep.py, line 816: sys.exit(len(os.listdir(<tmp_dir>)))
SleepExit(id) ==
    /\ id \in session
    /\ pc[id] = "checked"
    /\ listing' = [i \in DOMAIN listing \cup {id} |->
                      IF i = id THEN tmp_dir ELSE listing[i]]
    /\ pc' = [pc EXCEPT ![id] = "exited"]
    /\ UNCHANGED <<targets, sln, prev, seed, tmp_dir, session, slept, engine, exit_status, gvars>>

ExitCode(id) == Cardinality(listing[id])

\* a test that builds whenever the script reports any marker
BuildsAlone_always(errorlevel) == errorlevel >= 1

\* a test that builds when the script reports two markers
BuildsAlone_pair(errorlevel) == errorlevel = 2

\* line 590: if %ERRORLEVEL% == 1 (ninja <output>) else (exit /b 0)
BuildsAlone(errorlevel) == errorlevel = 1

CompileCmd(id) ==
    /\ id \in session
    /\ pc[id] = "exited"
    /\ engine' = IF BuildsAlone(ExitCode(id))
                 THEN engine \cup {Invocation(id, "ninja", CommandOf(id).args)}
                 ELSE engine
    /\ exit_status' = [i \in DOMAIN exit_status \cup {id} |->
                          IF i # id THEN exit_status[i]
                          ELSE IF BuildsAlone(ExitCode(id)) THEN "ninja" ELSE "0"]
    /\ pc' = [pc EXCEPT ![id] = "done"]
    /\ UNCHANGED <<targets, sln, prev, seed, tmp_dir, session, slept, listing, gvars>>

InitBuild ==
    /\ targets \in TargetLists(RootOnly)
    /\ seed \in Seeds
    /\ NoGeneration
    /\ sln = Generate(IntroTargets(targets))
    /\ prev = NoRun
    /\ NoSession

Next ==
    \/ \E sel \in Selections : StartSession(sel)
    \/ \E id \in ProjIds :
          \/ RunCommand(id)
          \/ Register(id)
          \/ NinjaBuild(id)
          \/ RegenRun(id)
          \/ SleepCreate(id)
          \/ SleepCheck(id)
          \/ SleepExit(id)
          \/ CompileCmd(id)

Spec == InitBuild /\ [][Next]_vars

\* targets whose names meet in the scratch directory: 'a' declared in the
\* source root, 'a' declared in src, and a target named 'ninja'
MarkerPool == <<<<1, <<>>>>, <<1, <<"src">>>>, <<8, <<>>>>>>

MarkerTargetLists ==
    UNION {
        {[i \in 1..k |-> RawTarget(MarkerPool[f[i]][1], MarkerPool[f[i]][2],
                                   FALSE, "executable")] :
            f \in {g \in [1..k -> 1..Len(MarkerPool)] :
                      \A i \in 1..k, j \in 1..k : i < j => g[i] < g[j]}} :
        k \in 0..MaxTargets}

InitMarkers ==
    /\ targets \in MarkerTargetLists
    /\ seed \in Seeds
    /\ NoGeneration
    /\ sln = Generate(IntroTargets(targets))
    /\ prev = NoRun
    /\ NoSession

SpecMarkers == InitMarkers /\ [][Next]_vars

----------------------------------------------------------------------------
(* get_headers: attribution of the records of ninja -t deps *)

SLASH == "/"

None == "None"

\* a target name as the pieces object paths are spelled from: 'mylib' is
\* 'my' followed by 'lib'
NameTokens(name) == IF name = "mylib" THEN <<"my", "lib">> ELSE <<name>>

\* the tokens n occur in s from position i on
HasAt(s, i, n) ==
    /\ i + Len(n) - 1 <= Len(s)
    /\ SubSeq(s, i, i + Len(n) - 1) = n

\* the name is a whole segment of the path: it starts at a directory
\* boundary and ends at one
WholeSegment(target_name, object_name) ==
    LET n == NameTokens(target_name) IN
    \E i \in 1..Len(object_name) :
        /\ HasAt(object_name, i, n)
        /\ i = 1 \/ object_name[i - 1] = SLASH
        /\ i + Len(n) <= Len(object_name) /\ object_name[i + Len(n)] = SLASH

\* line 184: re.match('.*<target_name>.*[\/].*', object_name): the name
\* anywhere in the path, and a '/' somewhere after it
Matches(target_name, object_name) ==
    LET n == NameTokens(target_name) IN
    \E i \in 1..Len(object_name) :
        /\ HasAt(object_name, i, n)
        /\ \E j \in (i + Len(n))..Len(object_name) : object_name[j] = SLASH

\* lines 183-186: the keys of target_headers in insertion order, up to the
\* first that matches
Hits(names, object_name) ==
    {k \in 1..Len(names) : Matches(names[k], object_name)}

FirstHit(names, object_name) ==
    CHOOSE k \in Hits(names, object_name) :
        \A l \in Hits(names, object_name) : k <= l

\* a loop without the break of line 186: the last matching key wins
target_proj_last(names, object_name) ==
    IF Hits(names, object_name) = {} THEN None
    ELSE names[CHOOSE k \in Hits(names, object_name) :
                  \A l \in Hits(names, object_name) : l <= k]

target_proj(names, object_name) ==
    IF Hits(names, object_name) = {} THEN None
    ELSE names[FirstHit(names, object_name)]

\* the loop variable target_name after the loop of lines 183-186: the name
\* at the break, or the last key when the loop ran to its end
target_name_after(names, object_name) ==
    IF names = <<>> THEN None
    ELSE IF Hits(names, object_name) = {} THEN names[Len(names)]
    ELSE names[FirstHit(names, object_name)]

\* a loop that goes on to add the headers when no target matched
Dropped_never(tp) == FALSE

\* lines 187-188: if target_proj == None: continue
Dropped(tp) == tp = None

\* line 194: target_headers[target_name].add(Path(h)) for each h
AddHeaders(th, name, hs) ==
    [n \in DOMAIN th |-> IF n = name THEN th[n] \cup hs ELSE th[n]]

----------------------------------------------------------------------------
(* get_headers: the filter of lines 195-207 *)

\* the files that exist under the source root
SourceTree ==
    {PathJoin(source_dir, <<"x.h">>), PathJoin(source_dir, <<"y.h">>)}

\* the headers the build writes into the build directory
BuildTree == {PathJoin(info_build_dir, <<"gen.h">>)}

Exists(p) == p \in SourceTree \cup BuildTree \cup {source_dir}

IsAbsolute(p) == Len(p) > 0 /\ p[1] = "C:"

\* pathlib: a / b, where an absolute b replaces a
PathDiv(a, b) == IF IsAbsolute(b) THEN b ELSE PathJoin(a, b)

\* Path.resolve() of an absolute path: '.' dropped, '..' takes the parent
RECURSIVE Norm(_, _, _)
Norm(comps, i, acc) ==
    IF i > Len(comps) THEN acc
    ELSE IF comps[i] = "." THEN Norm(comps, i + 1, acc)
    ELSE IF comps[i] = ".."
         THEN Norm(comps, i + 1,
                   IF Len(acc) > 1 THEN SubSeq(acc, 1, Len(acc) - 1) ELSE acc)
    ELSE Norm(comps, i + 1, Append(acc, comps[i]))

Resolve(p) == PathOf(Norm(Comps(p), 1, <<>>))

\* line 201: h_path = (build_dir / h).absolute().resolve()
HPath(h) == Resolve(PathDiv(info_build_dir, h))

\* PurePath.relative_to(start) does not raise ValueError
IsUnder(p, start) ==
    \/ p = start
    \/ /\ Len(p) > Len(start) + 1
       /\ SubSeq(p, 1, Len(start)) = start
       /\ p[Len(start) + 1] = SEP

\* a filter that keeps every header
KeepHeader_all(h) == TRUE

\* lines 200-205: kept when relative_to succeeds and the file exists
KeepHeader(h) ==
    /\ IsUnder(HPath(h), source_dir)
    /\ Exists(PathJoin(source_dir, Relpath(HPath(h), source_dir)))

\* lines 198-206: filt_headers, a list with one element per kept element
\* of the set headers, as the number of times each path is in the list
FiltHeaders(headers) ==
    LET kept == {h \in headers : KeepHeader(h)} IN
    [v \in {HPath(h) : h \in kept} |->
        Cardinality({h \in kept : HPath(h) = v})]

\* header spellings of the dependency listing
hx_rel == <<"..", SEP, "proj", SEP, "x.h">>
hx_abs == <<"C:", SEP, "proj", SEP, "x.h">>
hx_dots == <<"..", SEP, "build", SEP, "..", SEP, "proj", SEP, "x.h">>
hy_rel == <<"..", SEP, "proj", SEP, "y.h">>
h_gone == <<"..", SEP, "proj", SEP, "gone.h">>
h_sys == <<"C:", SEP, "sys", SEP, "stdio.h">>
h_gen == <<"gen.h">>

\* a record without ': ': re.match('^.*(?=: )', dep) is None
NoObject == <<>>

DepRecord(object, headers) == [object |-> object, headers |-> headers]

\* records ninja -t deps may print
DepRecords ==
    {DepRecord(<<"lib", SLASH, "x.obj">>, {hx_rel, h_sys}),
     DepRecord(<<"my", "lib", ".p", SLASH, "x.obj">>, {hx_abs, hy_rel}),
     DepRecord(<<"other", ".p", SLASH, "z.obj">>, {hy_rel}),
     DepRecord(<<"app", SLASH, "m.obj">>, {hx_rel, hx_dots, h_gone}),
     DepRecord(<<"lib", SLASH, "my", "lib", SLASH, "y.obj">>, {hy_rel, h_gen}),
     DepRecord(NoObject, {})}

MaxRecords == 2

\* the listings: up to MaxRecords records
Listings == UNION {[1..k -> DepRecords] : k \in 0..MaxRecords}

----------------------------------------------------------------------------
(* get_headers: the text of ninja -t deps and how lines 168-192 take it apart *)

\* a piece of the text: its kind and the characters it stands for
Tok(k, v) == [k |-> k, v |-> v]

CR == Tok("cr", <<"\r">>)
LF == Tok("lf", <<"\n">>)
SP == Tok("sp", <<" ">>)
\* the four spaces ninja puts before every dependency
INDENT == Tok("indent", <<"    ">>)
COLON == Tok("text", <<":">>)
Text(p) == Tok("text", p)

EolTokens(e) == IF e = "\r\n" THEN <<CR, LF>> ELSE <<LF>>

\* the order in which a block lists its dependencies
HeaderOrder == <<hx_rel, hx_abs, hx_dots, hy_rel, h_gone, h_sys, h_gen>>

RECURSIVE RenderHeaders(_, _, _)
RenderHeaders(headers, i, nl) ==
    IF i > Len(HeaderOrder) THEN <<>>
    ELSE (IF HeaderOrder[i] \in headers
          THEN <<INDENT, Text(HeaderOrder[i])>> \o nl ELSE <<>>)
         \o RenderHeaders(headers, i + 1, nl)

\* one block: '<object>: #deps ...', the indented dependencies, an empty
\* line; a block without an object is a line without ': '
RenderBlock(r, nl) ==
    IF r.object = NoObject THEN <<Text(<<"note">>)>> \o nl \o nl
    ELSE <<Text(r.object), COLON, SP, Text(<<"#deps">>)>> \o nl
         \o RenderHeaders(r.headers, 1, nl) \o nl

RECURSIVE Render(_, _, _)
Render(blocks, i, nl) ==
    IF i > Len(blocks) THEN <<>>
    ELSE RenderBlock(blocks[i], nl) \o Render(blocks, i + 1, nl)

\* line 171: .replace('\r', '\n')
ReplaceCR(text) == [i \in 1..Len(text) |-> IF text[i] = CR THEN LF ELSE text[i]]

IsSpace(t) == t.k \in {"cr", "lf", "sp", "indent"}

\* line 172: .strip()
Strip(text) ==
    LET idx == {i \in 1..Len(text) : ~IsSpace(text[i])} IN
    IF idx = {} THEN <<>>
    ELSE SubSeq(text, CHOOSE i \in idx : \A j \in idx : i <= j,
                      CHOOSE i \in idx : \A j \in idx : j <= i)

\* line 173: .split('\n\n\n\n')
RECURSIVE SplitBlank(_, _, _)
SplitBlank(text, i, cur) ==
    IF i > Len(text) THEN <<cur>>
    ELSE IF i + 3 <= Len(text) /\ \A j \in i..(i + 3) : text[j] = LF
         THEN <<cur>> \o SplitBlank(text, i + 4, <<>>)
    ELSE SplitBlank(text, i + 1, Append(cur, text[i]))

\* the characters of a run of pieces
RECURSIVE Join(_)
Join(toks) == IF toks = <<>> THEN <<>> ELSE Head(toks).v \o Join(Tail(toks))

\* line 176: re.match('^.*(?=: )', dep): the first line up to its last ': '
ObjectName(dep) ==
    LET ends == {i \in 1..Len(dep) : dep[i] = LF}
        last == IF ends = {} THEN Len(dep)
                ELSE (CHOOSE i \in ends : \A j \in ends : i <= j) - 1
        at == {i \in 1..(last - 1) : dep[i] = COLON /\ dep[i + 1] = SP}
    IN  IF at = {} THEN NoObject
        ELSE Join(SubSeq(dep, 1, (CHOOSE i \in at : \A j \in at : j <= i) - 1))

\* str.split(): the runs of characters between white space
RECURSIVE Words(_, _, _)
Words(toks, i, cur) ==
    IF i > Len(toks) THEN (IF cur = <<>> THEN {} ELSE {cur})
    ELSE IF IsSpace(toks[i])
         THEN (IF cur = <<>> THEN {} ELSE {cur}) \cup Words(toks, i + 1, <<>>)
    ELSE Words(toks, i + 1, cur \o toks[i].v)

\* lines 190-192: re.search('  (.|\n)*', dep), split at white space
HeaderWords(dep) ==
    LET at == {i \in 1..Len(dep) : dep[i] = INDENT} IN
    IF at = {} THEN {}
    ELSE Words(dep, CHOOSE i \in at : \A j \in at : i <= j, <<>>)

\* lines 168-192: the records get_headers makes of the text
ParseDeps(text) ==
    LET deps == SplitBlank(Strip(ReplaceCR(text)), 1, <<>>) IN
    [i \in 1..Len(deps) |->
        IF ObjectName(deps[i]) = NoObject THEN DepRecord(NoObject, {})
        ELSE DepRecord(ObjectName(deps[i]), HeaderWords(deps[i]))]

----------------------------------------------------------------------------
(* One generation run, step by step: VisualStudioSolution.__init__ *)

svars == <<tmp_dir, session, pc, slept, listing, engine, exit_status>>

\* lines 332-333
tmp_dir_path == PathJoin(build_dir, <<"ninja_vs_temp">>)

private_dir == PathJoin(build_dir, <<"ninja_vs_private">>)

\* nothing emitted yet
NoSolution ==
    [vcxprojs |-> <<>>, files |-> <<>>, projects |-> <<>>,
     subdir_guids |-> <<>>, folders |-> {}, parents |-> {}, build0 |-> {},
     nested |-> {}, filters |-> <<>>]

\* the names of the targets, in the order of intro['targets']
Names == [i \in 1..Len(targets) |-> targets[i].name]

\* the targets whose object records the listings name, up to MaxTargets
HeaderTargetLists ==
    UNION {
        {[i \in 1..k |-> RawTarget(4 + q[i], <<>>, FALSE, "executable")] :
            q \in {r \in [1..k -> 1..3] : \A i, j \in 1..k : r[i] = r[j] => i = j}} :
        k \in 0..MaxTargets}

InitRun ==
    /\ docs \in SUBSET AllDocs
    /\ targets \in (IF "intro-targets.json" \in docs
                     THEN HeaderTargetLists ELSE {<<>>})
    /\ seed = 0
    /\ sln = NoSolution
    /\ prev = NoRun
    /\ NoSession
    /\ gpc = <<"start">>
    /\ written = {}
    /\ err = NoError
    /\ object_deps = <<>>
    /\ attributed = <<>>
    /\ target_headers = <<>>
    /\ filt_target_headers = <<>>
    /\ info_build_dir = build_dir
    /\ eol = "\r\n"
    /\ deps_blocks = <<>>
    /\ NoReconfigure

\* lines 334-337: the two directories are made when they do not exist
MakeDirs ==
    /\ gpc = <<"start">>
    /\ \E fresh \in BOOLEAN :
          written' = IF fresh THEN {tmp_dir_path, private_dir} ELSE {}
    /\ gpc' = <<"script">>
    /\ UNCHANGED <<targets, sln, prev, seed, svars, rvars, hvars, docs, err, object_deps,
                   attributed, target_headers, filt_target_headers>>

\* line 338 and lines 806-817: parallel_sleep.py is written
generate_python_sleep_script ==
    /\ gpc = <<"script">>
    /\ written' = written \cup {PathJoin(private_dir, <<"parallel_sleep.py">>)}
    /\ gpc' = <<"arch">>
    /\ UNCHANGED <<targets, sln, prev, seed, svars, rvars, hvars, docs, err, object_deps,
                   attributed, target_headers, filt_target_headers>>

\* line 339 and lines 270-279: platform_arch.txt is read when an earlier
\* run left it, and written otherwise
get_arch ==
    /\ gpc = <<"arch">>
    /\ written' = IF private_dir \in written
                  THEN written \cup {PathJoin(private_dir, <<"platform_arch.txt">>)}
                  ELSE written
    /\ gpc' = <<"intro", 1>>
    /\ UNCHANGED <<targets, sln, prev, seed, svars, rvars, hvars, docs, err, object_deps,
                   attributed, target_headers, filt_target_headers>>

\* an error message that names the directory only
MissingMessage_dir(k) ==
    <<"Introspect data", PathJoin(build_dir, <<"meson-info">>), "missing!">>

\* line 233: the message of the exception
MissingMessage(k) == <<"Introspect data", IntroPath(k), "missing!">>

\* lines 231-234: one round of the loop over the documents
get_introspect_files(k) ==
    /\ gpc = <<"intro", k>>
    /\ IF IntroDocs[k] \notin docs
       THEN /\ err' = MissingMessage(k)
            /\ gpc' = <<"aborted">>
       ELSE /\ err' = err
            /\ gpc' = IF k < Len(IntroDocs) THEN <<"intro", k + 1>>
                      ELSE <<"headers">>
    /\ UNCHANGED <<targets, sln, prev, seed, svars, rvars, hvars, docs, written, object_deps,
                   attributed, target_headers, filt_target_headers>>

\* lines 161-174: the query, which fails or returns a listing
DepsQuery ==
    /\ gpc = <<"headers">>
    /\ \/ /\ err' = <<"CalledProcessError", "ninja -t deps">>
          /\ gpc' = <<"aborted">>
          /\ UNCHANGED <<object_deps, target_headers, deps_blocks>>
       \/ /\ deps_blocks' \in Listings
          /\ object_deps' = ParseDeps(Render(deps_blocks', 1, EolTokens(eol)))
          /\ target_headers' = [n \in {Names[i] : i \in 1..Len(Names)} |-> {}]
          /\ gpc' = <<"attribute">>
          /\ err' = err
    /\ UNCHANGED <<targets, sln, prev, seed, svars, rvars, docs, written, attributed,
                   filt_target_headers, info_build_dir, eol>>

\* lines 175-194: one round of the loop over the records
AttributeRecord ==
    /\ gpc = <<"attribute">>
    /\ Len(attributed) < Len(object_deps)
    /\ LET dep == object_deps[Len(attributed) + 1]
           tp == IF dep.object = NoObject THEN None
                 ELSE target_proj(Names, dep.object)
       IN  /\ attributed' = Append(attributed, tp)
           /\ target_headers' =
                 IF dep.object = NoObject \/ Dropped(tp) THEN target_headers
                 ELSE AddHeaders(target_headers,
                                 target_name_after(Names, dep.object), dep.headers)
    /\ UNCHANGED <<targets, sln, prev, seed, svars, rvars, hvars, docs, gpc, written, err,
                   object_deps, filt_target_headers>>

\* lines 195-207: the filter, for every key of target_headers
FilterHeaders ==
    /\ gpc = <<"attribute">>
    /\ Len(attributed) = Len(object_deps)
    /\ filt_target_headers' =
          [n \in DOMAIN target_headers |-> FiltHeaders(target_headers[n])]
    /\ gpc' = <<"assemble">>
    /\ UNCHANGED <<targets, sln, prev, seed, svars, rvars, hvars, docs, written, err,
                   object_deps, attributed, target_headers>>

\* lines 355-443: the project files and the solution file are written
Assemble ==
    /\ gpc = <<"assemble">>
    /\ sln' = Generate(IntroTargets(targets))
    /\ written' = written
          \cup {PathJoin(build_dir, id \o <<".vcxproj">>) :
                   id \in DOMAIN ProjFiles(IntroTargets(targets))}
          \cup {PathJoin(build_dir, <<"sln">>)}
    /\ gpc' = <<"done">>
    /\ UNCHANGED <<targets, prev, seed, svars, rvars, hvars, docs, err, object_deps,
                   attributed, target_headers, filt_target_headers>>

NextRun ==
    \/ MakeDirs
    \/ generate_python_sleep_script
    \/ get_arch
    \/ \E k \in 1..Len(IntroDocs) : get_introspect_files(k)
    \/ DepsQuery
    \/ AttributeRecord
    \/ FilterHeaders
    \/ Assemble

SpecRun == InitRun /\ [][NextRun]_vars

\* the directories the build directory may be: beside the source root, or
\* inside it
BuildDirs == {build_dir, PathJoin(source_dir, <<"build">>)}

\* get_headers alone, for either place of the build directory and either
\* line ending of the listing
InitHeaders ==
    /\ docs = AllDocs
    /\ targets \in HeaderTargetLists
    /\ seed = 0
    /\ sln = NoSolution
    /\ prev = NoRun
    /\ NoSession
    /\ gpc = <<"headers">>
    /\ written = {}
    /\ err = NoError
    /\ object_deps = <<>>
    /\ attributed = <<>>
    /\ target_headers = <<>>
    /\ filt_target_headers = <<>>
    /\ info_build_dir \in BuildDirs
    /\ eol \in {"\r\n", "\n"}
    /\ deps_blocks = <<>>
    /\ NoReconfigure

NextHeaders == DepsQuery \/ AttributeRecord \/ FilterHeaders

SpecHeaders == InitHeaders /\ [][NextHeaders]_vars

----------------------------------------------------------------------------
(* Reconfigure: generate_reconfigure_proj writes the build options into    *)
(* Reconfigure_project.vcxproj, run_reconfigure reads them back            *)

\* option names, character by character where the characters matter:
\* cpp_std, build.cpp_std, sub:opt, my__opt, with--x
OptionNames ==
    <<<<"cpp", "_", "std">>, <<"build", ".", "cpp", "_", "std">>,
      <<"sub", ":", "opt">>, <<"my", "_", "_", "opt">>,
      <<"with", "-", "-", "x">>>>

cpp_std == OptionNames[1]

Value(type, v) == [type |-> type, v |-> v]

\* option values as json holds them: the strings none and c++20, the
\* boolean true
OptionValues ==
    {Value("string", <<"none">>), Value("string", <<"c", "+", "+", "20">>),
     Value("boolean", <<"true">>)}

\* str(value), which is also what an f-string writes
Str(value) ==
    IF value.type = "boolean"
    THEN (IF value.v = <<"true">> THEN <<"True">> ELSE <<"False">>)
    ELSE value.v

MaxOptions == 2

\* the lists intro-buildoptions.json may hold: up to MaxOptions options with
\* different names
OptionLists ==
    UNION {
        {[i \in 1..k |-> [name |-> OptionNames[f[i]], value |-> g[i]]] :
            f \in {h \in [1..k -> 1..Len(OptionNames)] :
                      \A i \in 1..k, j \in 1..k : i < j => h[i] < h[j]},
            g \in [1..k -> OptionValues]} :
        k \in 0..MaxOptions}

\* str.replace(old, new) for one character old
ReplaceChar(str, old, new) ==
    [i \in 1..Len(str) |-> IF str[i] = old THEN new ELSE str[i]]

\* lines 246-248: 'std' + value.replace('none', 'Default').replace('+', 'p')
VsStd(value) ==
    Value("string",
          <<"std">> \o ReplaceChar(ReplaceChar(value.v, "none", "Default"), "+", "p"))

\* get_introspect_files, lines 241-248: intro['buildoptions'], keyed by name
IntroBuildoptions(list) ==
    [n \in {list[i].name : i \in 1..Len(list)} |->
        LET opt == list[CHOOSE i \in 1..Len(list) :
                           /\ list[i].name = n
                           /\ \A j \in 1..Len(list) : list[j].name = n => j <= i]
        IN  IF n = cpp_std THEN [opt EXCEPT !.value = VsStd(opt.value)] ELSE opt]

\* str.replace(old, new) for one character old and two characters new
RECURSIVE Widen(_, _, _)
Widen(str, old, new) ==
    IF str = <<>> THEN <<>>
    ELSE (IF Head(str) = old THEN <<new, new>> ELSE <<Head(str)>>)
         \o Widen(Tail(str), old, new)

\* str.replace(old + old, new): from the left, without overlap
RECURSIVE Narrow(_, _, _)
Narrow(str, old, new) ==
    IF str = <<>> THEN <<>>
    ELSE IF Len(str) >= 2 /\ str[1] = old /\ str[2] = old
         THEN <<new>> \o Narrow(SubSeq(str, 3, Len(str)), old, new)
    ELSE <<Head(str)>> \o Narrow(Tail(str), old, new)

\* line 555: opt["name"].replace(".", "__").replace(":", "--")
EncodeName(name) == Widen(Widen(name, ".", "_"), ":", "-")

\* line 316: opt_name.group(0).replace("__", ".").replace("--", ":")
DecodeName(tag) == Narrow(Narrow(tag, "_", "."), "-", ":")

\* lines 554-556: one <meson_tag>value</meson_tag> line per option, in the
\* order of the dictionary
ReconfigureLines(list) ==
    LET intro == IntroBuildoptions(list) IN
    [i \in 1..Len(list) |->
        [tag |-> EncodeName(intro[list[i].name].name),
         value |-> Str(intro[list[i].name].value)]]

\* the texts a property page of Visual Studio may set
OptionTexts == {Str(v) : v \in OptionValues} \cup {<<"False">>}

InitReconf ==
    /\ targets = <<>>
    /\ seed = 0
    /\ docs = AllDocs
    /\ gpc = <<"done">>
    /\ written = {}
    /\ err = NoError
    /\ object_deps = <<>>
    /\ attributed = <<>>
    /\ target_headers = <<>>
    /\ filt_target_headers = <<>>
    /\ info_build_dir = build_dir
    /\ eol = "\r\n"
    /\ deps_blocks = <<>>
    /\ sln = Generate(IntroTargets(targets))
    /\ prev = NoRun
    /\ NoSession
    /\ buildoptions \in OptionLists
    /\ proj_options = ReconfigureLines(buildoptions)
    /\ reconfigured = NotRun

\* the user sets an option on the property page of the Reconfigure project
EditOption(i, text) ==
    /\ reconfigured = NotRun
    /\ i \in 1..Len(proj_options)
    /\ proj_options' = [proj_options EXCEPT ![i].value = text]
    /\ UNCHANGED <<targets, sln, prev, seed, svars, docs, gpc, written, err,
                   object_deps, attributed, target_headers, filt_target_headers,
                   hvars, buildoptions, reconfigured>>

\* lines 312-319: the options of the project file whose value is not the
\* introspected one, as -D arguments
ChangedOptions(intro, lines) ==
    LET differs(line) ==
            line.value # Str(intro[DecodeName(line.tag)].value)
        arg(line) == <<"-D", DecodeName(line.tag), line.value>>
        picked == SelectSeq(lines, differs)
    IN  [i \in 1..Len(picked) |-> arg(picked[i])]

\* lines 298-325: python ninja_vs.py --reconfigure
run_reconfigure ==
    /\ reconfigured = NotRun
    /\ LET intro == IntroBuildoptions(buildoptions) IN
       IF \E i \in 1..Len(proj_options) :
              DecodeName(proj_options[i].tag) \notin DOMAIN intro
       THEN reconfigured' =
                [status |-> "KeyError", changed |-> <<>>, configure |-> FALSE]
       ELSE reconfigured' =
                [status |-> "done",
                 changed |-> ChangedOptions(intro, proj_options),
                 configure |-> ChangedOptions(intro, proj_options) # <<>>]
    /\ UNCHANGED <<targets, sln, prev, seed, svars, docs, gpc, written, err,
                   object_deps, attributed, target_headers, filt_target_headers,
                   hvars, buildoptions, proj_options>>

NextReconf ==
    \/ \E i \in 1..MaxOptions : \E text \in OptionTexts : EditOption(i, text)
    \/ run_reconfigure

SpecReconf == InitReconf /\ [][NextReconf]_vars

----------------------------------------------------------------------------
(* Properties of the marker protocol *)

\* the target projects of the session that run parallel_sleep.py
SleepSteps == {id \in session : CommandOf(id).pre = "parallel_sleep"}

\* the projects of the session whose command creates a marker
MarkerSteps == {id \in session : CommandOf(id).pre # "none"}

Counted(id) == pc[id] \in {"exited", "done"}

Built(id) == \E e \in engine : e.by = id

WholeGraph == Invocation(ninja_proj.id, "ninja", <<>>)

\* A and B registered within each other's delay window: each marker was in
\* the directory when the other step took its final listing
SameWindow(A, B) ==
    /\ Counted(A) /\ Counted(B)
    /\ CommandOf(B).marker \in listing[A]
    /\ CommandOf(A).marker \in listing[B]

\* the introspected target a target project was generated from
TargetOfId(id) ==
    CHOOSE t \in {IntroTargets(targets)[i] : i \in 1..Len(targets)} : t.id = id

\* C1: the protocol never under-builds: a target step that counted two or
\* more markers and built nothing ran in a session whose Ninja step
\* invokes the build engine for the whole graph.
C1_NeverUnderBuilds ==
    \A id \in SleepSteps :
        (Counted(id) /\ ExitCode(id) >= 2) =>
            /\ ninja_proj.id \in session
            /\ AllDone => WholeGraph \in engine

\* A is the only target step of the session and the only step of it that
\* registers a marker (Prebuild, on which A depends, runs before it)
Isolated(A) ==
    /\ session \cap TargetProjIds = {A}
    /\ MarkerSteps = {A}

\* C2: isolated build: when, after Prebuild has cleared the scratch
\* directory, target step A is the only target step that runs and no other
\* step registers a marker, A counts exactly one marker and makes exactly
\* one build-engine call, for target A only.
C2_IsolatedBuild ==
    \A A \in SleepSteps :
        Isolated(A) =>
            /\ Counted(A) => ExitCode(A) = 1
            /\ pc[A] = "done" =>
                  engine = {Invocation(A, "ninja", BuildTargetOutput(TargetOfId(A)))}

C2_Witness ==
    \E A \in SleepSteps :
        /\ Isolated(A)
        /\ pc[A] = "done"
        /\ Built(A)

SolutionWide == session # {} /\ session = Closure(IdsOfGuids(sln.build0))

\* the target steps of the session all registered within each other's window
TargetsInOneWindow ==
    /\ Cardinality(SleepSteps) >= 2
    /\ \A A \in SleepSteps : \A B \in SleepSteps \ {A} : SameWindow(A, B)

----------------------------------------------------------------------------
(* Build order *)

\* the projects id depends on, directly or through other projects
TransDeps(id) == Closure(Deps(id))

\* C5: Prebuild is a build-order dependency of every other project of the
\* solution and depends on nothing itself, so in a session no other step
\* starts, and no marker is created, before Prebuild has cleared the
\* scratch directory.
C5_PrebuildFirst ==
    /\ \A id \in ProjIds \ {prebuild_proj.id} : prebuild_proj.id \in Deps(id)
    /\ DepGuids(prebuild_proj.id) = {}
    /\ \A id \in session \ {prebuild_proj.id} :
          pc[id] # "pending" =>
              prebuild_proj.id \in session /\ pc[prebuild_proj.id] = "done"
    /\ (session # {} /\ pc[prebuild_proj.id] # "done") =>
          \A id \in MarkerSteps : pc[id] = "pending"

C5_Witness ==
    /\ \E id \in SleepSteps : pc[id] = "created"
    /\ \E id \in MarkerSteps : pc[id] = "registered"
    /\ pc[prebuild_proj.id] = "done"
    /\ Cardinality(tmp_dir) >= 2

\* C6: Ninja declares Regenerate solution as a dependency, Regenerate does
\* not depend on Ninja, and the build-order graph is acyclic; in a session
\* the Ninja step, and with it the whole-graph engine invocation, starts
\* only after the Regenerate step has finished.
C6_NinjaAfterRegen ==
    /\ regen_proj.guid \in DepGuids(ninja_proj.id)
    /\ ninja_proj.id \notin TransDeps(regen_proj.id)
    /\ \A id \in ProjIds : id \notin TransDeps(id)
    /\ (ninja_proj.id \in session /\ pc[ninja_proj.id] # "pending") =>
          regen_proj.id \in session /\ pc[regen_proj.id] = "done"
    /\ WholeGraph \in engine =>
          Invocation(regen_proj.id, "ninja", <<"build.ninja">>) \in engine

C6_Witness ==
    /\ ninja_proj.id \in session
    /\ pc[ninja_proj.id] = "registered"
    /\ pc[regen_proj.id] = "done"

----------------------------------------------------------------------------
(* Properties of the generated graph *)

\* the project nodes generated from introspected targets
TargetNodes ==
    {sln.vcxprojs[i] : i \in {j \in 1..Len(sln.vcxprojs) : sln.vcxprojs[j].id \in TargetProjIds}}

SyntheticNodes ==
    {install_proj, test_proj, reconfigure_proj, prebuild_proj, regen_proj, ninja_proj}

\* C7: every project node of an individual target is not built by
\* default, whatever the introspection data says, and the only nodes built
\* by default are Prebuild, Ninja and Regenerate solution.
C7_TargetsNotDefault ==
    /\ \A p \in TargetNodes : ~p.build_by_default /\ p.guid \notin sln.build0
    /\ sln.build0 = {prebuild_proj.guid, ninja_proj.guid, regen_proj.guid}

\* the folder node of the reserved folder "Build to run"
ReservedFolder == Lookup(sln.subdir_guids, build_to_run_subdir)

\* the folder paths derived from the directories that declare targets:
\* each directory and its ancestors
RECURSIVE Ancestors(_)
Ancestors(dir) ==
    IF dir = <<>> THEN {} ELSE {dir} \cup Ancestors(Dirname(dir))

SourceFolders ==
    UNION {Ancestors(Dirname(Relpath(targets[i].defined_in, source_dir))) :
              i \in 1..Len(targets)}

\* C8: for every target set the graph has exactly one each of the six
\* synthetic run nodes, all run steps nested under the one reserved folder
\* "Build to run"; the reserved folder is no folder derived from the
\* source tree, and no target node is nested under it.
C8_ReservedFolder ==
    /\ \A s \in SyntheticNodes :
          /\ Cardinality({i \in 1..Len(sln.vcxprojs) : sln.vcxprojs[i].name = s.name}) = 1
          /\ \E i \in 1..Len(sln.vcxprojs) : sln.vcxprojs[i] = s
          /\ s.is_run_target
          /\ <<s.guid, ReservedFolder>> \in sln.nested
    /\ ReservedFolder # KeyError
    /\ build_to_run_subdir \notin SourceFolders
    /\ \A p \in TargetNodes : <<p.guid, ReservedFolder>> \notin sln.nested

\* C9: no dangling folder references: for every project node with a
\* non-empty folder path, the solution has a folder node for that path and
\* for each of its ancestors, also when an ancestor holds no project.
C9_NoDanglingFolders ==
    /\ \A i \in 1..Len(sln.vcxprojs) :
          \A dir \in Ancestors(sln.vcxprojs[i].subdir) :
              /\ dir \in DOMAIN sln.subdir_guids
              /\ \E f \in sln.folders :
                    f.guid = sln.subdir_guids[dir] /\ f.name = Basename(dir)
    /\ \A n \in sln.nested :
          /\ n[1] # KeyError
          /\ \E f \in sln.folders : f.guid = n[2]

C9_Witness ==
    /\ \E p \in TargetNodes : p.subdir = <<"src", SEP, "lib", SEP, "sub">>
    /\ \A p \in TargetNodes : p.subdir \notin {<<"src">>, <<"src", SEP, "lib">>}
    /\ {<<"src">>, <<"src", SEP, "lib">>} \subseteq DOMAIN sln.subdir_guids

\* C10: two generation runs over the same build directory and an
\* unchanged target set assign the same id to every project node and every
\* folder node, whatever the order of the targets and the earlier runs.
C10_StableIds == prev # NoRun => NodeIds(sln) = prev

C10_Witness ==
    /\ prev # NoRun
    /\ Len(targets) = 2
    /\ sln.vcxprojs[5].name = "b"
    /\ targets[1].name = "a"
    /\ \E p \in TargetNodes : p.subdir # <<>>

\* C11: within one generated solution no two distinct nodes receive the
\* same id: the ids of the project nodes (hashed from the build-directory
\* qualified target ids and the six synthetic names) and of the folder
\* nodes (hashed from the folder paths) are pairwise distinct.
C11_DistinctIds ==
    /\ \A i, j \in 1..Len(sln.vcxprojs) :
          i # j => sln.vcxprojs[i].guid # sln.vcxprojs[j].guid
    /\ \A d1, d2 \in DOMAIN sln.subdir_guids :
          d1 # d2 => sln.subdir_guids[d1] # sln.subdir_guids[d2]
    /\ \A i \in 1..Len(sln.vcxprojs) : \A d \in DOMAIN sln.subdir_guids :
          sln.vcxprojs[i].guid # sln.subdir_guids[d]

C11_Witness ==
    /\ Cardinality(TargetNodes) = 2
    /\ {<<"lib">>, <<"src", SEP, "lib">>, build_to_run_subdir}
          \subseteq DOMAIN sln.subdir_guids
    /\ Cardinality({sln.vcxprojs[i].guid : i \in 1..Len(sln.vcxprojs)}) = 8

----------------------------------------------------------------------------
(* Properties of header attribution *)

\* the run has returned from get_headers
HeadersReturned == gpc \in {<<"assemble">>, <<"done">>}

\* the records of the listing that name an object
ObjectRecords ==
    {i \in 1..Len(object_deps) : object_deps[i].object # NoObject}

\* the canonical path of header spelling h is an existing file inside the
\* source tree
InTree(h) ==
    /\ Exists(HPath(h))
    /\ Len(HPath(h)) > Len(source_dir)
    /\ SubSeq(HPath(h), 1, Len(source_dir)) = source_dir

\* the paths of the list get_headers returned for target name n
HeaderSet(n) == DOMAIN filt_target_headers[n]

\* C12: a record is attributed to a target only if the target's name is a
\* whole, directory-boundary-delimited segment of the object path; a name
\* that is only a substring of a segment is not matched.
C12_WholeSegmentOnly ==
    \A i \in 1..Len(attributed) :
        attributed[i] # None => WholeSegment(attributed[i], object_deps[i].object)

\* C13: for every target T, T's HeaderSet is exactly the set of existing
\* in-tree headers of the records whose object path has T's name as a
\* whole segment: every such header, and no other path.
C13_ExactHeaderSet ==
    HeadersReturned =>
        \A n \in DOMAIN filt_target_headers :
            HeaderSet(n) =
                {HPath(h) : h \in {g \in UNION {object_deps[i].headers :
                                     i \in {j \in ObjectRecords :
                                               WholeSegment(n, object_deps[j].object)}} :
                                   InTree(g)}}

\* C14: no HeaderSet contains a path that, canonicalized against the build
\* directory, lies outside the source root or does not exist under it; of
\* a system header and an in-tree header only the in-tree one is kept.
C14_OnlyInTree ==
    HeadersReturned =>
        \A n \in DOMAIN filt_target_headers :
            /\ \A v \in HeaderSet(n) :
                  /\ Exists(v)
                  /\ SubSeq(v, 1, Len(source_dir) + 1) = source_dir \o <<SEP>>
            /\ \A h \in target_headers[n] : ~InTree(h) => HPath(h) \notin HeaderSet(n)

C14_Witness ==
    /\ gpc = <<"done">>
    /\ \E n \in DOMAIN filt_target_headers :
          /\ target_headers[n] = {hx_rel, h_sys}
          /\ HeaderSet(n) = {PathJoin(source_dir, <<"x.h">>)}

\* C15: each target's HeaderSet holds any canonical absolute path at most
\* once, also when the listing spells the same header in two ways.
C15_NoDuplicates ==
    HeadersReturned =>
        \A n \in DOMAIN filt_target_headers :
            \A v \in HeaderSet(n) : filt_target_headers[n][v] <= 1

\* C16: a record whose object path matches no target is dropped without
\* an error: the run goes on, and every target's headers are those of the
\* records attributed to it, the records after a dropped one included.
C16_UnmatchedDropped ==
    gpc \in {<<"attribute">>, <<"assemble">>, <<"done">>} =>
        /\ err = NoError
        /\ \A n \in DOMAIN target_headers :
              target_headers[n] =
                  UNION {object_deps[i].headers :
                           i \in {j \in 1..Len(attributed) : attributed[j] = n}}
        /\ HeadersReturned => Len(attributed) = Len(object_deps)

C16_Witness ==
    /\ gpc = <<"done">>
    /\ Len(object_deps) = 2
    /\ object_deps[1].object # NoObject
    /\ object_deps[1].headers # {}
    /\ attributed[1] = None
    /\ attributed[2] # None
    /\ target_headers[attributed[2]] = object_deps[2].headers
    /\ HeaderSet(attributed[2]) # {}

----------------------------------------------------------------------------
(* Properties of a failing generation run *)

Aborted == gpc = <<"aborted">>

\* the run ended in get_introspect_files
MissingDocument == Aborted /\ err[1] = "Introspect data"

\* the first document, in the order of the loop, that does not exist
FirstMissing ==
    CHOOSE k \in 1..Len(IntroDocs) :
        /\ IntroDocs[k] \notin docs
        /\ \A j \in 1..(k - 1) : IntroDocs[j] \in docs

\* C17: when an introspection document is missing or the dependency
\* listing query fails, the run aborts having created or modified no file
\* in the build directory.
C17_NoArtifactOnAbort == Aborted => written = {}

\* C18: get_introspect_files requires all ten documents; at the first one,
\* in its fixed order, that does not exist the run fails with an error
\* that names that document's path, and no header attribution, identity
\* assignment or graph assembly has run before.
C18_FirstMissingNamed ==
    /\ Len(IntroDocs) = 10
    /\ gpc[1] \in {"headers", "attribute", "assemble", "done"} => docs = AllDocs
    /\ MissingDocument =>
          /\ docs # AllDocs
          /\ err[2] = IntroPath(FirstMissing)
          /\ target_headers = <<>> /\ attributed = <<>>
          /\ filt_target_headers = <<>>
          /\ sln = NoSolution

C18_Witness ==
    /\ MissingDocument
    /\ {"intro-targets.json", "intro-tests.json", "meson-info.json"} \cap docs = {}
    /\ AllDocs \ docs = {"intro-targets.json", "intro-tests.json", "meson-info.json"}
    /\ err[2] = IntroPath(8)

----------------------------------------------------------------------------
(* Properties of one target build step *)

\* C19: a target build step calls the build engine if and only if the
\* number of markers of its final listing is exactly 1; with two or more
\* markers it builds nothing and exits with status 0.
C19_BuildsIffOne ==
    \A id \in SleepSteps :
        /\ Built(id) => pc[id] = "done" /\ ExitCode(id) = 1
        /\ pc[id] = "done" =>
              /\ Built(id) <=> ExitCode(id) = 1
              /\ ExitCode(id) >= 2 => ~Built(id) /\ exit_status[id] = "0"

C19_Witness ==
    \E A \in SleepSteps : \E B \in SleepSteps \ {A} :
        /\ pc[A] = "done" /\ pc[B] = "done"
        /\ ExitCode(A) = 1 /\ Built(A)
        /\ ExitCode(B) >= 2 /\ ~Built(B)

----------------------------------------------------------------------------
(* Properties of the markers *)

\* the projects whose command runs parallel_sleep.py
SleepProjects == {id \in ProjIds : CommandOf(id).pre = "parallel_sleep"}

\* the steps of the session that have registered their marker
Registered == {id \in MarkerSteps : pc[id] # "pending"}

\* C21: marker files are uniquely named per step: two different target
\* steps never write the same marker, no target's marker is the 'ninja' or
\* the 'regen' marker, and so the number of markers in the scratch
\* directory equals the number of steps registered since the last clear.
C21_UniqueMarkers ==
    /\ \A A \in SleepProjects : \A B \in SleepProjects \ {A} :
          CommandOf(A).marker # CommandOf(B).marker
    /\ \A A \in SleepProjects :
          CommandOf(A).marker \notin {ninja_cmd.marker, regen_cmd.marker}
    /\ (session # {} /\ pc[prebuild_proj.id] = "done") =>
          Cardinality(tmp_dir) = Cardinality(Registered)

\* the outcome of a finished target step: one engine call for its own
\* output, or no call and exit status 0
BuiltOwn(id) ==
    /\ {e \in engine : e.by = id} =
          {Invocation(id, "ninja", BuildTargetOutput(TargetOfId(id)))}
    /\ exit_status[id] = "ninja"

NoOp(id) == ~Built(id) /\ exit_status[id] = "0"

\* the steps of the command of target project id after its marker exists
OwnStep(id) == SleepCheck(id) \/ SleepExit(id) \/ CompileCmd(id)

\* how many steps of its command a target step has before it
Rank(position) ==
    IF position = "created" THEN 3
    ELSE IF position = "checked" THEN 2
    ELSE IF position = "exited" THEN 1
    ELSE 0

\* C22: every target build step that has registered its marker ends,
\* whatever the other steps do, with exactly one of two outcomes: it
\* invokes the build engine for its own target, or it builds nothing and
\* exits with status 0. Until then a step of its own that changes the
\* state is always possible (it is never blocked), and every step of the
\* session leaves it where it is or takes it nearer to its end (it never
\* lists again): it ends after three steps of its own.
C22_Terminates ==
    /\ [](\A id \in SleepSteps :
            /\ pc[id] = "done" => (BuiltOwn(id) /\ ~NoOp(id)) \/ (NoOp(id) /\ ~BuiltOwn(id))
            /\ pc[id] # "done" => ~Built(id)
            /\ pc[id] \in {"created", "checked", "exited"} =>
                  ENABLED <<OwnStep(id)>>_vars)
    /\ [][\A id \in SleepSteps :
            pc[id] \in {"created", "checked", "exited"} =>
                /\ session' = session
                /\ Rank(pc'[id]) <= Rank(pc[id])
                /\ OwnStep(id) => Rank(pc'[id]) = Rank(pc[id]) - 1]_vars

C22_Witness ==
    \E A \in SleepSteps : \E B \in SleepSteps \ {A} :
        /\ pc[A] = "done" /\ A \in slept /\ BuiltOwn(A)
        /\ pc[B] \in {"created", "checked"}

\* the prebuild step of the session acts in this step
PrebuildActs ==
    /\ prebuild_proj.id \in session
    /\ pc[prebuild_proj.id] = "pending"
    /\ pc'[prebuild_proj.id] = "done"
    /\ session' = session

\* C23: markers are removed only by the prebuild step. Every other step
\* (target, Ninja, Regenerate with its generation run, the start of a
\* session, any command without a marker) leaves every marker of the
\* scratch directory in place, so a marker stays until the next prebuild
\* step; and the prebuild step leaves no marker at all.
C23_OnlyPrebuildRemoves ==
    [][/\ ~PrebuildActs => tmp_dir \subseteq tmp_dir'
       /\ PrebuildActs => tmp_dir' = {}]_vars

\* a session is started while markers of finished steps of an earlier
\* session are still in the directory, and its prebuild step has not
\* acted yet
C23_Witness ==
    /\ prebuild_proj.id \in session
    /\ pc[prebuild_proj.id] = "pending"
    /\ Cardinality(tmp_dir) >= 2

\* the positions in the introspection target list of the targets whose
\* names get_headers finds in object path object_name
Candidates(object_name) ==
    {k \in 1..Len(targets) : Matches(targets[k].name, object_name)}

\* the records attributed so far whose object path is matched by the names
\* of several targets
Contested ==
    {i \in 1..Len(attributed) :
        /\ object_deps[i].object # NoObject
        /\ Cardinality(Candidates(object_deps[i].object)) >= 2}

\* C24: when the names of several targets match one object record, the
\* record is attributed to the matching target that comes first in the
\* introspection target list and its headers go to that target; no other
\* target receives a header on account of this record; and equal object
\* paths are attributed alike.
C24_FirstInListOrder ==
    /\ \A i \in Contested :
          LET cand == Candidates(object_deps[i].object) IN
          /\ \E k \in cand :
                /\ \A j \in cand : k <= j
                /\ attributed[i] = targets[k].name
          /\ object_deps[i].headers \subseteq target_headers[attributed[i]]
          /\ \A n \in DOMAIN target_headers \ {attributed[i]} :
                \A h \in object_deps[i].headers \cap target_headers[n] :
                    \E j \in 1..Len(attributed) :
                        /\ j # i
                        /\ attributed[j] = n
                        /\ h \in object_deps[j].headers
    /\ \A i, j \in 1..Len(attributed) :
          object_deps[i].object = object_deps[j].object =>
              attributed[i] = attributed[j]

\* a finished run with a record that the names of two targets match, whose
\* header reaches the first of them and not the second
C24_Witness ==
    /\ gpc = <<"done">>
    /\ \E i \in Contested :
          /\ attributed[i] = targets[1].name
          /\ Candidates(object_deps[i].object) = {1, 2}
          /\ HeaderSet(targets[1].name) # {}
          /\ HeaderSet(targets[2].name) = {}

\* C25: a header of a dependency record that lies in the build directory
\* is in no HeaderSet, wherever the build directory is.
C25_NoGenerated ==
    HeadersReturned =>
        \A n \in DOMAIN filt_target_headers :
            \A v \in HeaderSet(n) : ~IsUnder(v, info_build_dir)

\* the blocks of the listing whose own object path names target n
OwnBlocks(n) ==
    {i \in 1..Len(deps_blocks) :
        /\ deps_blocks[i].object # NoObject
        /\ target_proj(Names, deps_blocks[i].object) = n}

\* C26: each block of the listing is a record of its own: what a target
\* is given are the headers of the blocks whose own object path names it,
\* all of them and nothing else, with either line ending.
C26_BlockIsRecord ==
    HeadersReturned =>
        \A n \in DOMAIN target_headers :
            target_headers[n] = UNION {deps_blocks[i].headers : i \in OwnBlocks(n)}

\* every identifier the last run emitted: of project nodes, of solution
\* folder nodes and of the Filter entries of the filters files
EmittedIds(s) ==
    {s.vcxprojs[i].guid : i \in 1..Len(s.vcxprojs)}
    \cup {s.subdir_guids[d] : d \in DOMAIN s.subdir_guids}
    \cup UNION {{s.filters[id][f] : f \in DOMAIN s.filters[id]} : id \in DOMAIN s.filters}

\* C27: no identifier a generation run emits is random: each one is a
\* name-based hash, and a run over unchanged input emits the identifiers
\* the run before it emitted.
C27_NoRandomIds ==
    /\ [](\A g \in EmittedIds(sln) : g[1] = "uuid5")
    /\ [][targets' = targets =>
            /\ NodeIds(sln') = NodeIds(sln)
            /\ sln'.filters = sln.filters]_vars

\* the directory of the file that declared the i-th target, relative to
\* the source root
DeclaredIn(i) == Relpath(Dirname(targets[i].defined_in), source_dir)

\* the project node of the i-th target of the introspection data
NodeOf(i) == CHOOSE p \in TargetNodes : p.name = targets[i].name

\* the nodes the solution nests node guid g under
ParentsOf(g) == {n[2] : n \in {m \in sln.nested : m[1] = g}}

\* C28: the project node of each target is nested under exactly one node,
\* the folder node whose path is the directory of the declaring file
\* relative to the source root; the node of a target declared at the
\* source root is nested under no node.
C28_NestedUnderDeclaringDir ==
    \A i \in 1..Len(targets) :
        /\ \E p \in TargetNodes : p.name = targets[i].name
        /\ IF DeclaredIn(i) = <<>>
           THEN ParentsOf(NodeOf(i).guid) = {}
           ELSE /\ DeclaredIn(i) \in DOMAIN sln.subdir_guids
                /\ ParentsOf(NodeOf(i).guid) = {sln.subdir_guids[DeclaredIn(i)]}
                /\ \E f \in sln.folders :
                      /\ f.guid = sln.subdir_guids[DeclaredIn(i)]
                      /\ f.name = Basename(DeclaredIn(i))

\* one target declared at the source root and one declared in src\lib
C28_Witness ==
    /\ Len(targets) = 2
    /\ DeclaredIn(1) = <<>>
    /\ DeclaredIn(2) = <<"src", SEP, "lib">>
    /\ ParentsOf(NodeOf(1).guid) = {}
    /\ ParentsOf(NodeOf(2).guid) = {generate_guid_from_path(<<"src", SEP, "lib">>)}

\* the paths of the folder nodes of the solution
FolderPaths == DOMAIN sln.subdir_guids

\* the folder paths whose node the solution nests the node of folder d under
FolderParents(d) ==
    {q \in FolderPaths : <<sln.subdir_guids[d], sln.subdir_guids[q]>> \in sln.nested}

\* the folders reached from d by going to a parent up to k times
RECURSIVE Above(_, _)
Above(d, k) ==
    IF k = 0 THEN {}
    ELSE FolderParents(d) \cup UNION {Above(q, k - 1) : q \in FolderParents(d)}

\* C29: the folder nesting is a forest. A folder whose path has several
\* segments has exactly one parent, the folder of its path without the
\* last segment; a folder of one segment has none; no folder is above
\* itself; folders of different paths are different nodes with different
\* ids, also when their last segments (display names) are the same.
C29_FolderForest ==
    /\ \A d \in FolderPaths :
          /\ FolderParents(d) =
                IF Len(Split(d)) > 1 THEN {Dirname(d)} ELSE {}
          /\ d \notin Above(d, Cardinality(FolderPaths))
          /\ \E f \in sln.folders :
                f.guid = sln.subdir_guids[d] /\ f.name = Basename(d)
    /\ \A d, e \in FolderPaths : d # e => sln.subdir_guids[d] # sln.subdir_guids[e]
    /\ Cardinality(sln.folders) = Cardinality(FolderPaths)

\* folders lib and src\lib in one solution, and a folder three levels deep
C29_Witness ==
    /\ {<<"lib">>, <<"src", SEP, "lib">>, <<"src", SEP, "lib", SEP, "sub">>}
          \subseteq FolderPaths
    /\ FolderParents(<<"lib">>) = {}
    /\ FolderParents(<<"src", SEP, "lib">>) = {<<"src">>}
    /\ FolderParents(<<"src", SEP, "lib", SEP, "sub">>) = {<<"src", SEP, "lib">>}

----------------------------------------------------------------------------
(* Properties of Reconfigure *)

\* the value introspection gives the option that wrote line i of the
\* project file
IntroValue(i) == IntroBuildoptions(buildoptions)[buildoptions[i].name].value

\* C30: option names round-trip: decoding the encoded name gives the name
\* back for every build option, and run_reconfigure, which then finds
\* every option of the project file, invokes meson configure exactly when
\* the value of some option in the project file is not the introspected one.
C30_NamesRoundTrip ==
    /\ \A i \in 1..Len(buildoptions) :
          DecodeName(EncodeName(buildoptions[i].name)) = buildoptions[i].name
    /\ reconfigured # NotRun =>
          /\ reconfigured.status = "done"
          /\ reconfigured.configure <=>
                \E i \in 1..Len(proj_options) :
                    proj_options[i].value # Str(IntroValue(i))

====
